---- MODULE Spec2Model ----
(***************************************************************************)
(* Path-conformance engine of earchive: the FastPath value type, the       *)
(* post-order diagnostic walk (invalid_paths / check_valid_file) and the   *)
(* three-pass fix generator (rename / safe_rename / _rename_if_match).     *)
(*                                                                         *)
(* A name is a sequence of one-character strings.  A path is a record      *)
(* [segments, absolute].  The file system maps the segment tuple of every  *)
(* existing entry to [dir, mode, write]: mode says whether a directory can *)
(* be listed and searched, write whether entries can be renamed or removed *)
(* in it.                                                                  *)
(***************************************************************************)
EXTENDS Integers, Sequences, FiniteSets, TLC

(* ------------------------------------------------------------------ *)
(* Bounds of the exploration                                           *)
(* ------------------------------------------------------------------ *)
MaxDryRun == 2

\* the longest FastPath built outside of a run, in segments
MaxSegments == 2

(* ------------------------------------------------------------------ *)
(* Generic sequence helpers                                            *)
(* ------------------------------------------------------------------ *)
Min(a, b) == IF a < b THEN a ELSE b

Max(a, b) == IF a < b THEN b ELSE a

\* binds a value to a name once: Bind(e, LAMBDA x : body)
Bind(v, Body(_)) == Body(v)

RECURSIVE Flatten(_)
Flatten(ss) == IF ss = <<>> THEN <<>> ELSE Head(ss) \o Flatten(Tail(ss))

RECURSIVE SeqMax(_)
SeqMax(s) == IF s = <<>> THEN 0 ELSE Max(Head(s), SeqMax(Tail(s)))

Range(s) == {s[i] : i \in 1..Len(s)}

IsPrefix(p, q) == Len(p) <= Len(q) /\ SubSeq(q, 1, Len(p)) = p

\* Python s[i:j] on 0-based indices, clamped like a slice
Slice(s, i, j) == SubSeq(s, Min(i, Len(s)) + 1, Min(j, Len(s)))

\* Python s.rfind(c): 0-based index of the last occurrence, -1 when absent
RECURSIVE RFind(_, _)
RFind(s, c) ==
    IF s = <<>> THEN -1 ELSE IF s[Len(s)] = c THEN Len(s) - 1 ELSE RFind(SubSeq(s, 1, Len(s) - 1), c)

(* ------------------------------------------------------------------ *)
(* Characters                                                          *)
(* ------------------------------------------------------------------ *)
Digits == <<"0", "1", "2", "3", "4", "5", "6", "7", "8", "9">>

CharRank(c) ==
    LET order == <<"(", ")", ".", "/", "0", "1", "2", "3", "4", "5", "6", "7",
                   "8", "9", "<", ">", "?", "_", "a", "b", "c", "d", "t", "x", "E">>
        hits == {i \in 1..Len(order) : order[i] = c}
    IN  IF hits = {} THEN 0 ELSE CHOOSE i \in hits : TRUE

RECURSIVE NameLess(_, _)
NameLess(a, b) ==
    IF a = <<>> THEN b # <<>>
    ELSE IF b = <<>> THEN FALSE
    ELSE IF Head(a) = Head(b) THEN NameLess(Tail(a), Tail(b))
    ELSE CharRank(Head(a)) < CharRank(Head(b))

(* ------------------------------------------------------------------ *)
(* FastPath                                                            *)
(* ------------------------------------------------------------------ *)
FastPath(segs, abs) == [segments |-> segs, absolute |-> abs]

\* str.split("/") on a character sequence
RECURSIVE SplitSlash(_, _)
SplitSlash(s, cur) ==
    IF s = <<>> THEN <<cur>>
    ELSE IF Head(s) = "/" THEN <<cur>> \o SplitSlash(Tail(s), <<>>)
    ELSE SplitSlash(Tail(s), Append(cur, Head(s)))

RECURSIVE KeepSegments(_)
KeepSegments(parts) ==
    IF parts = <<>> THEN <<>>
    ELSE IF Head(parts) \in {<<>>, <<".">>} THEN KeepSegments(Tail(parts))
    ELSE <<Head(parts)>> \o KeepSegments(Tail(parts))

get_segments(path) ==
    LET p == IF Len(path) >= 2 /\ SubSeq(path, 1, 2) = <<".", "/">>
             THEN SubSeq(path, 3, Len(path)) ELSE path
    IN  KeepSegments(SplitSlash(p, <<>>))

from_str(path) ==
    IF path = <<"/">> THEN FastPath(<<>>, TRUE)
    ELSE IF path = <<".">> THEN FastPath(<<>>, FALSE)
    ELSE FastPath(get_segments(path), path # <<>> /\ path[1] = "/")

RECURSIVE JoinSlash(_)
JoinSlash(segs) ==
    IF segs = <<>> THEN <<>>
    ELSE IF Len(segs) = 1 THEN segs[1]
    ELSE segs[1] \o <<"/">> \o JoinSlash(Tail(segs))

\* FastPath.str
Str(p) ==
    IF p.segments = <<>> THEN (IF p.absolute THEN <<"/">> ELSE <<".">>)
    ELSE IF p.absolute THEN <<"/">> \o JoinSlash(p.segments)
    ELSE <<".", "/">> \o JoinSlash(p.segments)

\* a join that appends whatever it is given
Join_appending(p, other) == FastPath(p.segments \o get_segments(other), p.absolute)

\* FastPath.__truediv__
Join(p, other) ==
    IF other = <<"/">> THEN FastPath(<<>>, TRUE)
    ELSE FastPath(p.segments \o get_segments(other), p.absolute)

\* FastPath.__eq__ compares the segments only
PathEq(p, q) == p.segments = q.segments

\* FastPath.__hash__: the tuple that is hashed
PathHash(p) == <<p.segments, p.absolute>>

parent(p) ==
    FastPath(IF p.segments = <<>> THEN <<>>
             ELSE SubSeq(p.segments, 1, Len(p.segments) - 1), p.absolute)

\* FastPath.parents, nearest first, ending with the zero-segment path
RECURSIVE parents(_)
parents(p) ==
    IF Len(p.segments) <= 1 THEN <<FastPath(<<>>, p.absolute)>>
    ELSE <<parent(p)>> \o parents(parent(p))

name(p) == IF p.segments = <<>> THEN Str(p) ELSE p.segments[Len(p.segments)]

\* name[:dot_idx] and name[dot_idx:] for dot_idx = name.rfind(".")
StemOf(n, dot_idx) == IF dot_idx = -1 THEN n ELSE SubSeq(n, 1, dot_idx)

SuffixOf(n, dot_idx) == IF dot_idx = -1 THEN <<>> ELSE SubSeq(n, dot_idx + 1, Len(n))

stem(p) ==
    IF p.segments = <<>> THEN <<>>
    ELSE StemOf(p.segments[Len(p.segments)], RFind(p.segments[Len(p.segments)], "."))

suffix(p) ==
    IF p.segments = <<>> THEN <<>>
    ELSE SuffixOf(p.segments[Len(p.segments)], RFind(p.segments[Len(p.segments)], "."))

with_stem(p, st) ==
    FastPath((IF p.segments = <<>> THEN <<>>
              ELSE SubSeq(p.segments, 1, Len(p.segments) - 1)) \o <<st \o suffix(p)>>,
             p.absolute)

(* ------------------------------------------------------------------ *)
(* The file system and the os primitives FastPath wraps                *)
(* ------------------------------------------------------------------ *)
Entry(d, m, w) == [dir |-> d, mode |-> m, write |-> w]

ChildNames(f, segs) ==
    {q[Len(q)] : q \in {r \in DOMAIN f : Len(r) = Len(segs) + 1 /\ IsPrefix(segs, r)}}

\* every proper ancestor is a directory that can be searched
Reachable(f, segs) ==
    \A k \in 0..(Len(segs) - 1) :
        LET a == SubSeq(segs, 1, k)
        IN  a \in DOMAIN f /\ f[a].dir /\ f[a].mode

\* os.path.exists / isdir / isfile: a failing stat gives False
exists(f, p) == p.segments \in DOMAIN f /\ Reachable(f, p.segments)

os_isdir(f, p) == exists(f, p) /\ f[p.segments].dir

os_isfile(f, p) == exists(f, p) /\ ~f[p.segments].dir

\* the order in which a directory lists its entries
RECURSIVE SortNames(_, _)
SortNames(S, asc) ==
    IF S = {} THEN <<>>
    ELSE LET first == CHOOSE n \in S : \A m \in S \ {n} :
                          IF asc THEN NameLess(n, m) ELSE NameLess(m, n)
         IN  <<first>> \o SortNames(S \ {first}, asc)

\* os.listdir / os.scandir: the error raised, or the names
listdir(f, p, asc) ==
    IF ~exists(f, p) THEN [err |-> "FileNotFoundError", names |-> <<>>]
    ELSE IF ~f[p.segments].dir THEN [err |-> "NotADirectoryError", names |-> <<>>]
    ELSE IF ~f[p.segments].mode THEN [err |-> "PermissionError", names |-> <<>>]
    ELSE [err |-> "none", names |-> SortNames(ChildNames(f, p.segments), asc)]

Subtree(f, segs) == {q \in DOMAIN f : IsPrefix(segs, q)}

Failed(e, f) == [err |-> e, fs |-> f]

\* the tree once the entry s and everything below it has taken the place of d
Moved(f, s, d) ==
    [q \in ((DOMAIN f \ Subtree(f, d)) \ Subtree(f, s))
           \cup {d \o SubSeq(r, Len(s) + 1, Len(r)) : r \in Subtree(f, s)} |->
        IF IsPrefix(d, q) THEN f[s \o SubSeq(q, Len(d) + 1, Len(q))] ELSE f[q]]

RenameSegs(f, s, d, spar, dpar, srcOk, dparOk, win) ==
    IF s = <<>> \/ ~srcOk THEN Failed("FileNotFoundError", f)
    ELSE IF d = <<>> \/ ~dparOk THEN Failed("FileNotFoundError", f)
    ELSE IF ~f[dpar].dir THEN Failed("NotADirectoryError", f)
    ELSE IF ~f[dpar].write \/ ~f[spar].write THEN Failed("PermissionError", f)
    ELSE IF s = d THEN [err |-> "none", fs |-> f]
    ELSE IF IsPrefix(s, d) THEN Failed("OSError", f)
    ELSE IF d \notin DOMAIN f THEN [err |-> "none", fs |-> Moved(f, s, d)]
    ELSE IF win THEN Failed("FileExistsError", f)
    ELSE IF f[s].dir /\ ~f[d].dir THEN Failed("NotADirectoryError", f)
    ELSE IF ~f[s].dir /\ f[d].dir THEN Failed("IsADirectoryError", f)
    ELSE IF f[d].dir /\ ChildNames(f, d) # {} THEN Failed("OSError", f)
    ELSE [err |-> "none", fs |-> Moved(f, s, d)]

\* os.rename(src, dst): the error raised and the file system afterwards
os_rename(f, src, dst, win) ==
    RenameSegs(f, src.segments, dst.segments, parent(src).segments, parent(dst).segments,
               exists(f, src), exists(f, parent(dst)), win)

\* os.rmdir(path)
os_rmdir(f, p) ==
    IF p.segments = <<>> THEN Failed("OSError", f)
    ELSE IF ~exists(f, p) THEN Failed("FileNotFoundError", f)
    ELSE IF ~f[p.segments].dir THEN Failed("NotADirectoryError", f)
    ELSE IF ~f[parent(p).segments].write THEN Failed("PermissionError", f)
    ELSE IF ChildNames(f, p.segments) # {} THEN Failed("OSError", f)
    ELSE [err |-> "none", fs |-> [q \in DOMAIN f \ {p.segments} |-> f[q]]]

(* ------------------------------------------------------------------ *)
(* glob, int() and str() as safe_rename uses them                      *)
(* ------------------------------------------------------------------ *)
\* fnmatch of one name against a pattern with the wildcards * and ?
RECURSIVE GlobMatch(_, _)
GlobMatch(pat, nm) ==
    IF pat = <<>> THEN nm = <<>>
    ELSE IF Head(pat) = "*"
         THEN GlobMatch(Tail(pat), nm) \/ (nm # <<>> /\ GlobMatch(pat, Tail(nm)))
    ELSE IF nm = <<>> THEN FALSE
    ELSE (Head(pat) = "?" \/ Head(pat) = Head(nm)) /\ GlobMatch(Tail(pat), Tail(nm))

\* FastPath.glob: the matching entries of the directory, as relative paths
glob(f, dir, pat) ==
    IF listdir(f, dir, TRUE).err # "none" THEN {}
    ELSE {from_str(n) : n \in {m \in ChildNames(f, dir.segments) : GlobMatch(pat, m)}}

RECURSIVE DigitIndex(_, _)
DigitIndex(c, i) == IF i > 10 THEN 0 ELSE IF Digits[i] = c THEN i ELSE DigitIndex(c, i + 1)

DigitValue(c) == DigitIndex(c, 1) - 1

\* int(s): -1 stands for ValueError
RECURSIVE ParseInt(_, _)
ParseInt(s, acc) ==
    IF s = <<>> THEN acc
    ELSE IF DigitValue(Head(s)) = -1 THEN -1
    ELSE ParseInt(Tail(s), 10 * acc + DigitValue(Head(s)))

int(s) == IF s = <<>> THEN -1 ELSE ParseInt(s, 0)

\* str(n) for n >= 0
RECURSIVE IntToStr(_)
IntToStr(n) ==
    IF n < 10 THEN <<Digits[n + 1]>> ELSE IntToStr(n \div 10) \o <<Digits[(n % 10) + 1]>>

\* st.split("(")[-1][:-1]
LastField(st, k) == SubSeq(st, k + 2, Len(st) - 1)

NumberField(g) == LastField(stem(g), RFind(stem(g), "("))

(* ------------------------------------------------------------------ *)
(* safe_rename                                                         *)
(* ------------------------------------------------------------------ *)
\* the numbers read from the siblings the glob of safe_rename returns
SiblingNumbers(f, path) ==
    {int(NumberField(g)) : g \in glob(f, parent(path), stem(path) \o <<"(", "*", ")">> \o suffix(path))}

SetMax(S) == IF S = {} THEN 0 ELSE CHOOSE n \in S : \A m \in S : m <= n

\* max([...] + [0]) + 1
next_nb(nums) == Max(0, SetMax(nums)) + 1

\* a run that forgets the dry-run switch
is_dry_run_ignored(dry_run) == FALSE

\* config.behavior.dry_run as a condition: False and 0 are off, True counts as 1
is_dry_run(dry_run) == dry_run # 0

\* [raised, success, new, wanted, target, collided, called, fs]: raised is the
\* exception that leaves safe_rename, wanted the target asked for, target the path
\* handed to the rename primitive
SafeOut(ra, su, nw, wa, tgt, co, ca, g) ==
    [raised |-> ra, success |-> su, new |-> nw, wanted |-> wa, target |-> tgt,
     collided |-> co, called |-> ca, fs |-> g]

safe_rename(f, path, target, collision, dry_run, win) ==
    Bind(exists(f, target), LAMBDA collided :
    IF collided /\ collision = "skip"
    THEN SafeOut("none", FALSE, path, target, target, TRUE, FALSE, f)
    ELSE Bind(IF collided THEN SiblingNumbers(f, path) ELSE {}, LAMBDA nums :
         IF -1 \in nums THEN SafeOut("ValueError", FALSE, path, target, target, TRUE, FALSE, f)
         ELSE Bind(IF collided
                   THEN with_stem(target, stem(target) \o <<"(">> \o IntToStr(next_nb(nums)) \o <<")">>)
                   ELSE target, LAMBDA tgt :
              IF is_dry_run(dry_run) THEN SafeOut("none", TRUE, tgt, target, tgt, collided, FALSE, f)
              ELSE Bind(os_rename(f, path, tgt, win), LAMBDA r :
                   SafeOut(r.err, r.err = "none", tgt, target, tgt, collided, TRUE, r.fs)))))

(* ------------------------------------------------------------------ *)
(* Diagnostics and check_valid_file                                    *)
(* ------------------------------------------------------------------ *)
\* one record shape for every PathDiagnostic subclass; extra holds the
\* matches, the matched patterns or the error
Diag(kind, path, new, extra) == [kind |-> kind, path |-> path, new |-> new, extra |-> extra]

_is_excluded(path, exclude) ==
    IF exclude = {} THEN FALSE
    ELSE \E q \in Range(<<path>> \o parents(path)) : \E e \in exclude : PathEq(q, e)

\* a verdict that takes any directory that can be listed for empty
_is_empty_recurse_listed(f, asc, path, empty_dirs) ==
    Bind(listdir(f, path, asc), LAMBDA l :
    IF l.err # "none" THEN [err |-> l.err, empty |-> FALSE, memo |-> empty_dirs]
    ELSE [err |-> "none", empty |-> TRUE, memo |-> empty_dirs \cup {Str(path)}])

\* [err, empty, memo]: the listing error, the verdict and the memo afterwards
_is_empty_recurse(f, asc, path, empty_dirs) ==
    Bind(listdir(f, path, asc), LAMBDA l :
    IF l.err # "none" THEN [err |-> l.err, empty |-> FALSE, memo |-> empty_dirs]
    ELSE IF \E i \in 1..Len(l.names) : l.names[i] \notin empty_dirs
         THEN [err |-> "none", empty |-> FALSE, memo |-> empty_dirs]
    ELSE [err |-> "none", empty |-> TRUE, memo |-> empty_dirs \cup {Str(path)}])

\* config.invalid_characters.finditer(stem): one match per invalid character
RECURSIVE finditer(_, _, _)
finditer(invalid, st, i) ==
    IF i > Len(st) THEN <<>>
    ELSE (IF st[i] \in invalid THEN <<[start |-> i - 1, group |-> <<st[i]>>]>> ELSE <<>>)
         \o finditer(invalid, st, i + 1)

path_len_unadjusted(path, windows, win) == Len(Str(path))

path_len(path, windows, win) == Len(Str(path)) + (IF windows /\ ~win THEN 4 ELSE 0)

EmptyDiags(path, e) ==
    IF e.err = "PermissionError" THEN <<Diag("Error", path, path, e.err)>>
    ELSE IF e.empty THEN <<Diag("Empty", path, path, <<>>)>>
    ELSE <<>>

\* config.invalid_names.match(s): the pattern of the reserved names, each of
\* which it matches as a whole
invalid_names_match(invalid_names, s) == s \in invalid_names

CharactersDiags(path, ms, st, invalid_names) ==
    (IF ms # <<>> THEN <<Diag("Characters", path, path, ms)>> ELSE <<>>)
    \o (IF invalid_names_match(invalid_names, st) THEN <<Diag("InvalidName", path, path, <<>>)>> ELSE <<>>)

LengthDiags(path, cfg) ==
    (IF Len(name(path)) > cfg.max_name_length
     THEN <<Diag("NameLength", path, path, <<>>)>> ELSE <<>>)
    \o (IF path_len(path, cfg.windows, cfg.win) > cfg.max_path_length
        THEN <<Diag("Length", path, path, <<>>)>> ELSE <<>>)

NoEmptyCheck(memo) == [err |-> "none", empty |-> FALSE, memo |-> memo]

\* [raised, diags, memo]: the diagnostics one call yields, in order
check_valid_file(f, cfg, path, is_dir, checks, empty_dirs) ==
    IF _is_excluded(path, cfg.exclude)
    THEN [raised |-> "none", diags |-> <<>>, memo |-> empty_dirs]
    ELSE Bind(IF "EMPTY" \in checks /\ is_dir
              THEN _is_empty_recurse(f, cfg.asc, path, empty_dirs)
              ELSE NoEmptyCheck(empty_dirs), LAMBDA e :
         IF e.err \notin {"none", "PermissionError"}
         THEN [raised |-> e.err, diags |-> <<>>, memo |-> empty_dirs]
         ELSE [raised |-> "none",
               diags |-> EmptyDiags(path, e)
                         \o (IF "CHARACTERS" \in checks
                             THEN CharactersDiags(path, finditer(cfg.invalid, stem(path), 1),
                                                  stem(path), cfg.invalid_names)
                             ELSE <<>>)
                         \o (IF "LENGTH" \in checks THEN LengthDiags(path, cfg) ELSE <<>>),
               memo |-> e.memo])

(* ------------------------------------------------------------------ *)
(* Pass 1: the new stem, built on the UTF-8 bytes of the old one        *)
(* ------------------------------------------------------------------ *)
\* "E" stands for an accented letter of two bytes, "e" + combining mark once
\* NFD-normalised
Utf8(c) == IF c = "E" THEN <<"C3", "A9">> ELSE <<c>>

RECURSIVE Encode(_)
Encode(st) == IF st = <<>> THEN <<>> ELSE Utf8(Head(st)) \o Encode(Tail(st))

\* bytes.decode(): <<"!">> stands for UnicodeDecodeError
RECURSIVE Decode(_)
Decode(bs) ==
    IF bs = <<>> THEN <<>>
    ELSE IF Head(bs) = "C3"
         THEN IF Len(bs) >= 2 /\ bs[2] = "A9"
              THEN LET r == Decode(SubSeq(bs, 3, Len(bs)))
                   IN  IF r = <<"!">> THEN r ELSE <<"E">> \o r
              ELSE <<"!">>
    ELSE IF Head(bs) = "A9" THEN <<"!">>
    ELSE LET r == Decode(Tail(bs))
         IN  IF r = <<"!">> THEN r ELSE <<Head(bs)>> \o r

\* new_stem[a:b] = repl
SliceAssign(bs, a, b, repl) ==
    LET lo == Min(a, Len(bs))
        hi == Max(lo, Min(b, Len(bs)))
    IN  SubSeq(bs, 1, lo) \o repl \o SubSeq(bs, hi + 1, Len(bs))

RECURSIVE ReplaceMatches(_, _, _)
ReplaceMatches(bs, matches, repl) ==
    IF matches = <<>> THEN bs
    ELSE LET m == Head(matches)
         IN  ReplaceMatches(SliceAssign(bs, m.start, m.start + Len(Encode(m.group)), repl),
                            Tail(matches), repl)

new_stem(path, matches, replacement) ==
    Decode(ReplaceMatches(Encode(stem(path)), matches, Encode(replacement)))

(* ------------------------------------------------------------------ *)
(* Pass 2: _rename_if_match                                            *)
(* ------------------------------------------------------------------ *)
\* a rule is [match, replacement, accent_sensitive]; match is one character
normalize(rule, st) ==
    IF rule.accent_sensitive THEN st
    ELSE [i \in 1..Len(st) |-> IF st[i] = "E" THEN "e" ELSE st[i]]

\* pattern.match.subn(replacement, string): <<new string, number of substitutions>>
RECURSIVE subn(_, _)
subn(rule, st) ==
    IF st = <<>> THEN <<<<>>, 0>>
    ELSE LET r == subn(rule, Tail(st))
         IN  IF Head(st) = rule.match THEN <<rule.replacement \o r[1], r[2] + 1>>
             ELSE <<<<Head(st)>> \o r[1], r[2]>>

\* a loop in which every rule works on the name the first rule was given
RECURSIVE ApplyRules_unchained(_, _, _)
ApplyRules_unchained(rules, new_name, matched) ==
    IF rules = <<>> THEN [new_name |-> new_name, matched |-> matched]
    ELSE Bind(subn(Head(rules), normalize(Head(rules), new_name)), LAMBDA r :
         Bind(ApplyRules_unchained(Tail(rules), new_name, <<>>), LAMBDA rest :
         [new_name |-> IF rest.matched # <<>> THEN rest.new_name ELSE r[1],
          matched |-> matched \o (IF r[2] # 0 THEN <<<<Head(rules), r[1]>>>> ELSE <<>>)
                              \o rest.matched]))

\* the loop over config.rename: [new_name, matched_patterns]
RECURSIVE ApplyRules(_, _, _)
ApplyRules(rules, new_name, matched) ==
    IF rules = <<>> THEN [new_name |-> new_name, matched |-> matched]
    ELSE Bind(subn(Head(rules), normalize(Head(rules), new_name)), LAMBDA r :
         ApplyRules(Tail(rules), r[1],
                    IF r[2] # 0 THEN Append(matched, <<Head(rules), r[1]>>) ELSE matched))

RenameOut(ra, ds, ca, sr) == [raised |-> ra, diags |-> ds, called |-> ca, sr |-> sr]

\* [raised, diags, called, sr]: the diagnostic returned (none: <<>>), whether
\* safe_rename was called, and what it returned
_rename_if_match(f, cfg, par, filename) ==
    Bind(ApplyRules(cfg.rename, filename, <<>>), LAMBDA a :
    IF a.matched = <<>> THEN RenameOut("none", <<>>, FALSE, <<>>)
    ELSE Bind(Join(par, filename), LAMBDA old_path :
         Bind(safe_rename(f, old_path, Join(par, a.new_name), cfg.collision, cfg.dry_run, cfg.win),
              LAMBDA sr :
              IF sr.raised # "none" THEN RenameOut(sr.raised, <<>>, TRUE, sr)
              ELSE IF sr.success
                   THEN RenameOut("none", <<Diag("Rename", old_path, sr.new, a.matched)>>, TRUE, sr)
              ELSE RenameOut("none", <<Diag("Error", old_path, sr.new, "cannot_overwrite")>>,
                             TRUE, sr))))

(* ------------------------------------------------------------------ *)
(* walk_all: os.walk bottom-up, then the entry of the checked path     *)
(* ------------------------------------------------------------------ *)
\* os.path.join(top, name) on path strings
os_join(top, nm) ==
    IF top # <<>> /\ top[Len(top)] = "/" THEN top \o nm ELSE top \o <<"/">> \o nm

RECURSIVE Reverse(_)
Reverse(sq) == IF sq = <<>> THEN <<>> ELSE Reverse(Tail(sq)) \o <<Head(sq)>>

\* an item of the walk's stack: a directory still to scan (a path string),
\* or a scanned directory waiting to be yielded
ToScan(top) == [isEntry |-> FALSE, top |-> top, dirs |-> <<>>, files |-> <<>>]

Scanned(top, dirs, files) == [isEntry |-> TRUE, top |-> top, dirs |-> dirs, files |-> files]

ScanItems(top, dirs) == [i \in 1..Len(dirs) |-> ToScan(os_join(top, dirs[i]))]

\* one next() on os.walk(top_down=False): [stack, errors, got]; got holds the
\* yielded tuple, or is empty when the walk is over
RECURSIVE WalkPull(_, _, _, _)
WalkPull(f, asc, stk, errs) ==
    IF stk = <<>> THEN [stack |-> <<>>, errors |-> errs, got |-> <<>>]
    ELSE IF stk[Len(stk)].isEntry
    THEN [stack |-> SubSeq(stk, 1, Len(stk) - 1), errors |-> errs, got |-> <<stk[Len(stk)]>>]
    ELSE Bind(from_str(stk[Len(stk)].top), LAMBDA here :
         Bind(listdir(f, here, asc), LAMBDA l :
         IF l.err # "none"
         THEN WalkPull(f, asc, SubSeq(stk, 1, Len(stk) - 1),
                       Append(errs, Diag("Error", here, here, l.err)))
         ELSE Bind(SelectSeq(l.names, LAMBDA n : f[here.segments \o <<n>>].dir), LAMBDA dirs :
              WalkPull(f, asc,
                       SubSeq(stk, 1, Len(stk) - 1)
                           \o <<Scanned(stk[Len(stk)].top, dirs,
                                        SelectSeq(l.names, LAMBDA n : ~f[here.segments \o <<n>>].dir))>>
                           \o Reverse(ScanItems(stk[Len(stk)].top, dirs)),
                       errs))))

\* the one-element caches of FastPath.is_dir and FastPath.is_file
Cached(slot, real) == IF slot = <<>> THEN real ELSE slot[1]

Walker(ph, stk, errs, n) == [phase |-> ph, stack |-> stk, errors |-> errs, taken |-> n]

WalkTuple(root, dirs, files) == [root |-> root, dirs |-> dirs, files |-> files]

\* yield_root: the checked path as the only name of its parent's tuple
RootTuple(path, isdir, isfile) ==
    WalkTuple(parent(path), IF isdir THEN <<name(path)>> ELSE <<>>,
              IF isfile THEN <<name(path)>> ELSE <<>>)

\* one next() on walk_all(path, errors, top_down=False):
\* [walker, cache, got]; got is <<[root, dirs, files]>> or <<>> at the end
WalkAllNext(f, cfg, w, c) ==
    IF w.phase = "finished" THEN [walker |-> w, cache |-> c, got |-> <<>>]
    ELSE Bind(Cached(c.is_dir, os_isdir(f, cfg.path)), LAMBDA isdir :
         Bind(WalkPull(f, cfg.asc,
                       IF w.phase = "new" THEN (IF isdir THEN <<ToScan(Str(cfg.path))>> ELSE <<>>)
                       ELSE w.stack,
                       w.errors), LAMBDA pull :
         IF pull.got # <<>>
         THEN [walker |-> Walker("children", pull.stack, pull.errors, w.taken + 1),
               cache |-> [c EXCEPT !.is_dir = <<isdir>>],
               got |-> <<WalkTuple(from_str(pull.got[1].top), pull.got[1].dirs, pull.got[1].files)>>]
         ELSE Bind(Cached(c.is_file, os_isfile(f, cfg.path)), LAMBDA isfile :
              [walker |-> Walker("finished", <<>>, pull.errors, w.taken + 1),
               cache |-> [is_dir |-> <<isdir>>, is_file |-> <<isfile>>],
               got |-> <<RootTuple(cfg.path, isdir, isfile)>>])))

NewWalker == Walker("new", <<>>, <<>>, 0)

\* it.islice(paths, config.behavior.dry_run): no further next() once dry_run
\* tuples were taken
Exhausted(cfg, w) == w.phase = "finished" \/ (is_dry_run(cfg.dry_run) /\ w.taken >= cfg.dry_run)

(* ------------------------------------------------------------------ *)
(* The trees and configurations explored                               *)
(* ------------------------------------------------------------------ *)
Root == FastPath(<<>>, TRUE)

Abs(segs) == FastPath(segs, TRUE)

\* a tree: the entries below the root directory
Tree(entries) ==
    [q \in {<<>>} \cup {e[1] : e \in entries} |->
        IF q = <<>> THEN Entry(TRUE, TRUE, TRUE)
        ELSE LET e == CHOOSE x \in entries : x[1] = q IN Entry(e[2], e[3], e[4])]

F(segs) == <<segs, FALSE, TRUE, TRUE>>

D(segs) == <<segs, TRUE, TRUE, TRUE>>

\* a directory without any permission (mode 0o000)
Locked(segs) == <<segs, TRUE, FALSE, FALSE>>

\* a directory that can be listed but not written (mode 0o555)
ReadOnly(segs) == <<segs, TRUE, TRUE, FALSE>>

Rule(m, r, acc) == [match |-> m, replacement |-> r, accent_sensitive |-> acc]

\* a scenario: [tree, path, exclude, rename, replacement, invalid_names,
\* windows], the replacement being the default "_" of check.characters and the
\* target operating system Windows
Scenario(t, pth, ex, rules) ==
    [tree |-> t, path |-> pth, exclude |-> ex, rename |-> rules, replacement |-> <<"_">>,
     invalid_names |-> {}, windows |-> TRUE]

\* the scenario with a target operating system that is not Windows
NotForWindows(sc) == [sc EXCEPT !.windows = FALSE]

\* the scenario with reserved names
WithInvalidNames(sc, reserved) == [sc EXCEPT !.invalid_names = reserved]

\* the scenario with another check.characters.replacement
WithReplacement(sc, repl) == [sc EXCEPT !.replacement = repl]

Scenarios ==
    << \* three names that pass 1 maps to one destination
       Scenario(Tree({F(<<<<"a", "<">>>>), F(<<<<"a", ">">>>>), F(<<<<"a", "_">>>>)}), Root, {}, <<>>),
       \* a destination whose (1) variant already exists
       Scenario(Tree({F(<<<<"a", ">">>>>), F(<<<<"a", "_">>>>), F(<<<<"a", "_", "(", "1", ")">>>>)}),
                Root, {}, <<>>),
       \* a gap: (2) exists, (1) does not
       Scenario(Tree({F(<<<<"a", ">">>>>), F(<<<<"a", "_">>>>), F(<<<<"a", "_", "(", "2", ")">>>>)}),
                Root, {}, <<>>),
       \* b? and b_/{c>t.x, c_t.x}
       Scenario(Tree({F(<<<<"b", "?">>>>), D(<<<<"b", "_">>>>),
                      F(<<<<"b", "_">>, <<"c", ">", "t", ".", "x">>>>),
                      F(<<<<"b", "_">>, <<"c", "_", "t", ".", "x">>>>)}), Root, {}, <<>>),
       \* a/ (empty), b/{c, d/ (empty)}
       Scenario(Tree({D(<<<<"a">>>>), D(<<<<"b">>>>), F(<<<<"b">>, <<"c">>>>),
                      D(<<<<"b">>, <<"d">>>>)}), Root, {}, <<>>),
       \* nested empty directories a/b/c and a file next to them
       Scenario(Tree({D(<<<<"a">>>>), D(<<<<"a">>, <<"b">>>>), D(<<<<"a">>, <<"b">>, <<"c">>>>),
                      F(<<<<"d">>>>)}), Root, {}, <<>>),
       \* a directory that cannot be listed
       Scenario(Tree({D(<<<<"a">>>>), Locked(<<<<"b">>>>), F(<<<<"b">>, <<"x", ">">>>>),
                      F(<<<<"c", ">">>>>)}), Root, {}, <<Rule("c", <<"d">>, TRUE)>>),
       \* an excluded directory with entries to fix below it
       Scenario(Tree({D(<<<<"a">>>>), F(<<<<"a">>, <<"b", ">">>>>), D(<<<<"a">>, <<"d">>>>),
                      F(<<<<"b", ">">>>>)}),
                Root, {Abs(<<<<"a">>>>)}, <<Rule("b", <<"c">>, TRUE)>>),
       \* the checked path is a directory that pass 1 renames
       Scenario(Tree({D(<<<<"d", ">">>>>), F(<<<<"d", ">">>, <<"a">>>>), D(<<<<"d", ">">>, <<"b">>>>)}),
                Abs(<<<<"d", ">">>>>), {}, <<Rule("a", <<"b">>, TRUE)>>),
       \* rules chained on one name, and a directory colliding with a file
       Scenario(Tree({F(<<<<"a", "b">>>>), D(<<<<"c", "c">>>>), F(<<<<"b">>>>), D(<<<<"c">>>>)}),
                Root, {}, <<Rule("a", <<"b">>, TRUE), Rule("b", <<"c">>, TRUE)>>),
       \* the checked path is a single file
       Scenario(Tree({F(<<<<"a", ">", ".", "t">>>>), F(<<<<"a", "_", ".", "t">>>>)}),
                Abs(<<<<"a", ">", ".", "t">>>>), {}, <<>>),
       \* entries to fix and to remove inside a read-only directory
       Scenario(Tree({ReadOnly(<<<<"b">>>>), F(<<<<"b">>, <<"x", ">">>>>), D(<<<<"b">>, <<"d">>>>),
                      F(<<<<"c">>>>)}), Root, {}, <<Rule("c", <<"d">>, TRUE)>>),
       \* a replacement string that holds a dot, for names with and without a suffix
       WithReplacement(Scenario(Tree({F(<<<<"a", ">", "b">>>>), F(<<<<"c", ">", ".", "t">>>>)}),
                                Root, {}, <<>>), <<".">>),
       \* two matches in one stem and an empty replacement string
       WithReplacement(Scenario(Tree({F(<<<<"a", "<", "b", ">", ".", "t">>>>)}), Root, {}, <<>>), <<>>),
       \* two matches in one stem and the default replacement
       Scenario(Tree({F(<<<<"a", "<", "b", ">", ".", "t">>>>)}), Root, {}, <<>>),
       \* a two-byte character ahead of the match
       Scenario(Tree({F(<<<<"E", "x", "<">>>>)}), Root, {}, <<>>),
       Scenario(Tree({F(<<<<"E", "<">>>>), F(<<<<"b", ">">>>>)}), Root, {}, <<>>),
       \* the tree a first fix leaves behind under an accent-stripping rule
       Scenario(Tree({F(<<<<"e">>>>), D(<<<<"d">>>>), F(<<<<"d">>, <<"x">>>>)}), Root, {},
                <<Rule("e", <<"e">>, FALSE)>>),
       \* one directory listing with several names a rule matches
       Scenario(Tree({F(<<<<"a", "b">>>>), F(<<<<"b">>>>), D(<<<<"b", "b">>>>),
                      F(<<<<"b", "b">>, <<"x">>>>)}), Root, {}, <<Rule("b", <<"c">>, TRUE)>>),
       \* the checked path is a directory that both pass 1 and a rule rename
       Scenario(Tree({D(<<<<"d", ">">>>>), F(<<<<"d", ">">>, <<"a">>>>)}),
                Abs(<<<<"d", ">">>>>), {}, <<Rule("d", <<"e">>, TRUE)>>),
       \* a reserved name, with and without a suffix, and a long name
       WithInvalidNames(Scenario(Tree({F(<<<<"c">>>>), F(<<<<"c", ".", "t">>>>),
                                       D(<<<<"a", "b", "c", "d">>>>),
                                       F(<<<<"a", "b", "c", "d">>, <<"a", "b", "c", "d", "e">>>>),
                                       F(<<<<"a", "b", "c", "d">>, <<"a", "b", "c", "d">>>>),
                                       F(<<<<"a", "b", "c", "d", "e">>>>)}), Root, {}, <<>>),
                        {<<"c">>}),
       \* long names checked for a target that is not Windows
       NotForWindows(Scenario(Tree({D(<<<<"a", "b", "c", "d">>>>),
                                    F(<<<<"a", "b", "c", "d">>, <<"a", "b", "c", "d", "e">>>>),
                                    F(<<<<"a", "b", "c", "d">>, <<"a", "b", "c", "d">>>>)}),
                              Root, {}, <<>>)),
       \* accented names under an accent-insensitive rule followed by another rule
       Scenario(Tree({F(<<<<"E", "x">>>>), F(<<<<"E", "b">>>>)}), Root, {},
                <<Rule("x", <<"y">>, FALSE), Rule("b", <<"c">>, TRUE)>>)
    >>

Runs == {{}, {"EMPTY"}, {"CHARACTERS"}, {"EMPTY", "CHARACTERS"}, {"EMPTY", "CHARACTERS", "LENGTH"}}

Configs ==
    {[run |-> r, path |-> Scenarios[i].path, exclude |-> Scenarios[i].exclude,
      rename |-> Scenarios[i].rename, collision |-> col, dry_run |-> dry,
      replacement |-> Scenarios[i].replacement, invalid |-> {"<", ">", "?"}, invalid_names |-> Scenarios[i].invalid_names,
      windows |-> Scenarios[i].windows, win |-> w, max_name_length |-> 4, max_path_length |-> 10,
      asc |-> asc, fix |-> fx, scenario |-> i] :
        r \in Runs, i \in 1..Len(Scenarios), col \in {"skip", "increment"},
        dry \in 0..MaxDryRun, w \in BOOLEAN, fx \in BOOLEAN, asc \in BOOLEAN}

(* ------------------------------------------------------------------ *)
(* State                                                               *)
(* ------------------------------------------------------------------ *)
VARIABLES
    fs,          \* the file system: segments -> [dir, mode]
    fs0,         \* the file system when the run began
    cfg,         \* the Config of the run
    pc,          \* "start", "pass1", "pass2", "pass3", "check", "done", "raised"
    walker,      \* the walk_all generator of the current pass
    todo,        \* entries of the current walk tuple not yet handled
    empty_dirs,  \* the memo of invalid_paths
    diags,       \* the diagnostics received by the caller, in order
    counter,     \* Counter.value
    cache,       \* the caches of is_dir / is_file
    calls,       \* every call of the rename / rmdir primitive, in order
    stamps,      \* the pass of every diagnostic and primitive call, in order
    raised,      \* the exception that left the run ("none")
    visits,      \* every entry the for loops of the passes were given, in order
    fs_pass,     \* the file system when the current pass began
    fp,          \* a FastPath value built outside of a run
    made,        \* the operation that built fp
    arg          \* the string that operation was given

vars == <<fs, fs0, cfg, pc, walker, todo, empty_dirs, diags, counter, cache, calls, stamps, raised,
          visits, fs_pass, fp, made, arg>>

pathvars == <<fp, made, arg>>

runvars == <<fs, fs0, cfg, pc, walker, todo, empty_dirs, diags, counter, cache, calls, stamps, raised,
             visits, fs_pass>>

\* the state in which a run begins
RunInit ==
    /\ cfg \in Configs
    /\ fs = Scenarios[cfg.scenario].tree
    /\ fs0 = fs
    /\ pc = "start"
    /\ walker = NewWalker
    /\ todo = <<>>
    /\ empty_dirs = {}
    /\ diags = <<>>
    /\ counter = 0
    /\ cache = [is_dir |-> <<>>, is_file |-> <<>>]
    /\ calls = <<>>
    /\ stamps = <<>>
    /\ raised = "none"
    /\ visits = <<>>
    /\ fs_pass = fs

Init ==
    /\ RunInit
    /\ fp = Root
    /\ made = "none"
    /\ arg = <<>>

PassNo(p) == IF p = "pass1" THEN 1 ELSE IF p = "pass2" THEN 2 ELSE IF p = "pass3" THEN 3 ELSE 0

\* remaining_checks = config.check.run ^ Check.CHARACTERS
remaining_checks(run) == (run \ {"CHARACTERS"}) \cup ({"CHARACTERS"} \ run)

\* the blocks of rename() with pattern substitution ahead of character cleanup
NextPc_swapped(p, c) ==
    IF p = "start"
    THEN IF ~c.fix THEN (IF c.run = {} THEN "done" ELSE "check") ELSE "pass2"
    ELSE IF p = "pass2" THEN (IF "CHARACTERS" \in c.run THEN "pass1" ELSE "pass3")
    ELSE IF p = "pass1" THEN "pass3"
    ELSE "done"

\* the order of the blocks of rename(), and of check_path()
NextPc(p, c) ==
    IF p = "start"
    THEN IF ~c.fix THEN (IF c.run = {} THEN "done" ELSE "check")
         ELSE IF "CHARACTERS" \in c.run THEN "pass1" ELSE "pass2"
    ELSE IF p = "pass1" THEN "pass2"
    ELSE IF p = "pass2" THEN (IF remaining_checks(c.run) # {} THEN "pass3" ELSE "done")
    ELSE "done"

\* a call of a primitive: existed says whether dst existed when it was made; for a
\* rename, wanted is the target safe_rename was asked for and collided whether an
\* entry existed there
Call(op, src, dst, wanted, collided, existed, err) ==
    [pass |-> PassNo(pc), op |-> op, src |-> src, dst |-> dst, wanted |-> wanted,
     collided |-> collided, existed |-> existed, err |-> err]

Stamp(n) == [i \in 1..n |-> PassNo(pc)]

\* check_path / rename: entering the first block
Begin ==
    /\ pc = "start"
    /\ pc' = NextPc(pc, cfg)
    /\ walker' = NewWalker
    /\ fs_pass' = fs
    /\ UNCHANGED <<fs, fs0, cfg, todo, empty_dirs, diags, counter, cache, calls, stamps, raised, visits>>
    /\ UNCHANGED pathvars

Pending(root, names, isd) ==
    [i \in 1..Len(names) |-> [path |-> Join(root, names[i]), root |-> root, name |-> names[i], is_dir |-> isd]]

\* the for loop asks the walk for its next tuple: for file in files, for dir in dirs
WalkNext ==
    /\ pc \in {"pass1", "pass2", "pass3", "check"}
    /\ todo = <<>>
    /\ ~Exhausted(cfg, walker)
    /\ Bind(WalkAllNext(fs, cfg, walker, cache), LAMBDA n :
           /\ walker' = n.walker
           /\ cache' = n.cache
           /\ todo' = IF n.got = <<>> THEN <<>>
                      ELSE Pending(n.got[1].root, n.got[1].files, FALSE)
                           \o Pending(n.got[1].root, n.got[1].dirs, TRUE))
    /\ UNCHANGED <<fs, fs0, cfg, pc, empty_dirs, diags, counter, calls, stamps, raised, visits, fs_pass>>
    /\ UNCHANGED pathvars

\* the effect of handling one entry of the current walk tuple
Handled(f2, ds, cs, cnt, memo, exc) ==
    /\ fs' = f2
    /\ diags' = diags \o ds
    /\ calls' = calls \o cs
    /\ stamps' = stamps \o Stamp(Len(ds) + Len(cs))
    /\ counter' = cnt
    /\ empty_dirs' = memo
    /\ raised' = exc
    /\ pc' = IF exc # "none" THEN "raised" ELSE pc
    /\ todo' = IF exc # "none" THEN <<>> ELSE Tail(todo)
    /\ visits' = Append(visits, [pass |-> PassNo(pc), path |-> Head(todo).path])
    /\ UNCHANGED <<fs0, cfg, walker, cache, fs_pass>>
    /\ UNCHANGED pathvars

RenameCall(f, path, sr) ==
    IF sr.called
    THEN <<Call("rename", path, sr.target, sr.wanted, sr.collided, exists(f, sr.target), sr.raised)>>
    ELSE <<>>

\* the Characters case of the first pass
FixOne(path, chars, memo) ==
    Bind(new_stem(path, chars[1].extra, cfg.replacement), LAMBDA ns :
    IF ns = <<"!">> THEN Handled(fs, <<>>, <<>>, counter, memo, "UnicodeDecodeError")
    ELSE Bind(safe_rename(fs, path, with_stem(path, ns), cfg.collision, cfg.dry_run, cfg.win),
              LAMBDA sr :
              IF sr.raised # "none"
              THEN Handled(fs, <<>>, RenameCall(fs, path, sr), counter, memo, sr.raised)
              ELSE IF sr.success
              THEN Handled(sr.fs, <<Diag("CharactersFixed", path, sr.new, chars[1].extra)>>,
                           RenameCall(fs, path, sr), counter, memo, "none")
              ELSE Handled(fs, <<chars[1]>>, <<>>, counter, memo, "none")))

\* first pass of rename(): one path of invalid_paths(checks=CHARACTERS)
FixCharacters ==
    /\ pc = "pass1"
    /\ todo # <<>>
    /\ Bind(check_valid_file(fs, cfg, Head(todo).path, Head(todo).is_dir, {"CHARACTERS"}, empty_dirs),
            LAMBDA c :
            IF c.raised # "none" THEN Handled(fs, <<>>, <<>>, counter, empty_dirs, c.raised)
            ELSE Bind(SelectSeq(c.diags, LAMBDA d : d.kind = "Characters"), LAMBDA chars :
                 IF chars = <<>> THEN Handled(fs, <<>>, <<>>, counter, c.memo, "none")
                 ELSE FixOne(Head(todo).path, chars, c.memo)))

\* second pass of rename(): one name of files + dirs
RenameIfMatch ==
    /\ pc = "pass2"
    /\ todo # <<>>
    /\ Bind(_rename_if_match(fs, cfg, Head(todo).root, Head(todo).name), LAMBDA r :
            IF ~r.called THEN Handled(fs, <<>>, <<>>, counter, empty_dirs, "none")
            ELSE IF r.raised # "none"
            THEN Handled(fs, <<>>, RenameCall(fs, Head(todo).path, r.sr), counter, empty_dirs, r.raised)
            ELSE Handled(r.sr.fs, r.diags, RenameCall(fs, Head(todo).path, r.sr), counter,
                         empty_dirs, "none"))

\* an Empty case that reports the directory and leaves it in place
RemoveEmpty_reported(path, c, kept, nLen) ==
    Handled(fs, kept, <<>>, counter + nLen, c.memo, "none")

\* the Empty case of the third pass: path.rmdir() unless dry-run
RemoveEmpty(path, c, kept, nLen) ==
    IF is_dry_run(cfg.dry_run) THEN Handled(fs, kept, <<>>, counter + nLen, c.memo, "none")
    ELSE Bind(os_rmdir(fs, path), LAMBDA rm :
         IF rm.err # "none"
         THEN Handled(fs, <<>>, <<Call("rmdir", path, path, path, FALSE, TRUE, rm.err)>>, counter, c.memo, rm.err)
         ELSE Handled(rm.fs, kept, <<Call("rmdir", path, path, path, FALSE, TRUE, rm.err)>>, counter + nLen,
                      c.memo, "none"))

\* third pass of rename(): one path of invalid_paths(checks=remaining_checks)
Cleanup ==
    /\ pc = "pass3"
    /\ todo # <<>>
    /\ Bind(check_valid_file(fs, cfg, Head(todo).path, Head(todo).is_dir,
                             remaining_checks(cfg.run), empty_dirs), LAMBDA c :
            IF c.raised # "none" THEN Handled(fs, <<>>, <<>>, counter, empty_dirs, c.raised)
            ELSE IF \E i \in 1..Len(c.diags) : c.diags[i].kind = "Empty"
            THEN RemoveEmpty(Head(todo).path, c,
                             SelectSeq(c.diags, LAMBDA d : d.kind \in {"Empty", "Length"}),
                             Len(SelectSeq(c.diags, LAMBDA d : d.kind = "Length")))
            ELSE Handled(fs, SelectSeq(c.diags, LAMBDA d : d.kind = "Length"), <<>>,
                         counter + Len(SelectSeq(c.diags, LAMBDA d : d.kind = "Length")),
                         c.memo, "none"))

\* _check_analyze: one path of invalid_paths(config)
Analyze ==
    /\ pc = "check"
    /\ todo # <<>>
    /\ Bind(check_valid_file(fs, cfg, Head(todo).path, Head(todo).is_dir, cfg.run, empty_dirs),
            LAMBDA c :
            IF c.raised # "none" THEN Handled(fs, <<>>, <<>>, counter, empty_dirs, c.raised)
            ELSE Handled(fs, c.diags, <<>>, counter + Len(c.diags), c.memo, "none"))

\* the walk of the current block is over: invalid_paths yields its errors
\* (only _check_analyze keeps them) and the next block begins
EndPass ==
    /\ pc \in {"pass1", "pass2", "pass3", "check"}
    /\ todo = <<>>
    /\ Exhausted(cfg, walker)
    /\ diags' = IF pc = "check" THEN diags \o walker.errors ELSE diags
    /\ counter' = IF pc = "check" THEN counter + Len(walker.errors) ELSE counter
    /\ stamps' = IF pc = "check" THEN stamps \o Stamp(Len(walker.errors)) ELSE stamps
    /\ pc' = NextPc(pc, cfg)
    /\ walker' = NewWalker
    /\ empty_dirs' = {}
    /\ fs_pass' = fs
    /\ UNCHANGED <<fs, fs0, cfg, todo, cache, calls, raised, visits>>
    /\ UNCHANGED pathvars

Next == Begin \/ WalkNext \/ FixCharacters \/ RenameIfMatch \/ Cleanup \/ Analyze \/ EndPass

Spec == Init /\ [][Next]_vars

(* ------------------------------------------------------------------ *)
(* FastPath values on their own: built from strings, then joined,      *)
(* shortened and given other stems                                     *)
(* ------------------------------------------------------------------ *)
PathChars == {"/", ".", "a"}

\* the strings given to from_str and to `/`
Strings ==
    {<<a>> : a \in PathChars}
        \cup {<<a, b>> : a, b \in PathChars}
        \cup {<<a, b, c>> : a, b, c \in PathChars}
        \cup {<<"a", "/", "b">>}

\* the stems given to with_stem
Stems == {<<>>, <<"a">>, <<".">>, <<"a", ".">>, <<"a", "a">>}

PathInit ==
    /\ RunInit
    /\ cfg.scenario = 1 /\ cfg.run = {} /\ ~cfg.fix /\ cfg.dry_run = 0
    /\ cfg.collision = "skip" /\ ~cfg.win /\ cfg.asc
    /\ \E s \in Strings : fp = from_str(s) /\ arg = s
    /\ made = "from_str"

\* FastPath.from_str(s)
PFromStr ==
    /\ \E s \in Strings : fp' = from_str(s) /\ arg' = s
    /\ made' = "from_str"
    /\ UNCHANGED runvars

\* fp / other
PJoin ==
    /\ \E other \in Strings :
           /\ Len(fp.segments) + Len(get_segments(other)) <= MaxSegments
           /\ fp' = Join(fp, other)
           /\ arg' = other
    /\ made' = "join"
    /\ UNCHANGED runvars

\* fp.parent
PParent ==
    /\ fp' = parent(fp)
    /\ arg' = <<>>
    /\ made' = "parent"
    /\ UNCHANGED runvars

\* fp.with_stem(st)
PWithStem ==
    /\ \E st \in Stems : fp' = with_stem(fp, st) /\ arg' = st
    /\ made' = "with_stem"
    /\ UNCHANGED runvars

PathNext == PFromStr \/ PJoin \/ PParent \/ PWithStem

PathSpec == PathInit /\ [][PathNext]_vars

(* ------------------------------------------------------------------ *)
(* Properties                                                          *)
(* ------------------------------------------------------------------ *)
DiagKinds(kinds) == {i \in 1..Len(diags) : diags[i].kind \in kinds}

RenameCalls == {i \in 1..Len(calls) : calls[i].op = "rename"}

RmdirCalls == {i \in 1..Len(calls) : calls[i].op = "rmdir"}

FixRun == cfg.fix /\ cfg.dry_run = 0

\* C1: in a fix run with dry-run off, no call of the rename primitive is given a
\* destination that exists (under skip a collision means no call at all), and as
\* long as pass 3 has removed nothing the tree has as many entries as at the start.
C1_SafeRenameNeverOverwrites ==
    FixRun =>
        /\ \A i \in RenameCalls : ~calls[i].existed
        /\ (RmdirCalls = {} => Cardinality(DOMAIN fs) = Cardinality(DOMAIN fs0))

Numbered(wanted, n) == with_stem(wanted, stem(wanted) \o <<"(">> \o IntToStr(n) \o <<")">>)

\* stem(n)suffix for the smallest positive n that no sibling of the tree f carries
SmallestFree(f, wanted) ==
    Numbered(wanted, CHOOSE n \in 1..Cardinality(DOMAIN f) :
                 /\ ~exists(f, Numbered(wanted, n))
                 /\ \A m \in 1..(n - 1) : exists(f, Numbered(wanted, m)))

\* C2: whenever safe_rename meets an existing destination under the increment
\* policy, the path it renames to is stem(n)suffix of that destination for the
\* smallest positive n that no sibling carries.
C2_IncrementPicksSmallestFree ==
    [][Len(calls') > Len(calls) =>
          LET c == calls'[Len(calls')]
          IN  (c.op = "rename" /\ c.collided) => c.dst = SmallestFree(fs, c.wanted)]_vars

\* C3: a primitive that raises gives an Error diagnostic for its path, leaves the
\* tree as it was, and the run goes on: no exception leaves the run.
C3_PrimitiveErrorsBecomeDiagnostics ==
    \A i \in 1..Len(calls) :
        calls[i].err # "none" =>
            /\ raised = "none"
            /\ \E j \in DiagKinds({"Error"}) : diags[j].path = calls[i].src

\* C4: with dry-run enabled a fix run calls neither primitive and leaves the tree
\* identical to the one it started from.
C4_DryRunMutatesNothing ==
    (cfg.fix /\ cfg.dry_run # 0) => (fs = fs0 /\ calls = <<>>)

\* a finished dry-run fix that reported a rename it would have made
C4_Witness ==
    /\ cfg.fix /\ cfg.dry_run # 0 /\ pc = "done"
    /\ \E i \in DiagKinds({"CharactersFixed"}) : diags[i].new # diags[i].path
    /\ fs = fs0

HasDiag(kind, segs) == \E i \in DiagKinds({kind}) : diags[i].path.segments = segs

\* the directories a walk of cfg.path checks as entries, exclusions left out
Checked(f) ==
    {p \in DOMAIN f : /\ f[p].dir
                      /\ p # <<>>
                      /\ IsPrefix(cfg.path.segments, p)
                      /\ Reachable(f, p)
                      /\ ~_is_excluded(FastPath(p, TRUE), cfg.exclude)}

\* C5: at the end of a check-only walk with the Empty check enabled, a directory
\* that has children, all of them directories reported Empty in that walk, is
\* reported Empty as well.
C5_EmptinessIsTransitive ==
    (~cfg.fix /\ "EMPTY" \in cfg.run /\ cfg.dry_run = 0 /\ pc = "done") =>
        \A p \in Checked(fs) :
            (/\ ChildNames(fs, p) # {}
             /\ \A c \in ChildNames(fs, p) : fs[p \o <<c>>].dir /\ HasDiag("Empty", p \o <<c>>))
            => HasDiag("Empty", p)

NoFileBeneath(f, segs) == \A q \in Subtree(f, segs) : f[q].dir

Unlistable(f) == {p \in Checked(f) : ~f[p].mode}

ErrorsFor(segs) == {i \in DiagKinds({"Error"}) : diags[i].path.segments = segs}

\* C7: a check-only run with at least one check enabled ends without an
\* exception, with exactly one Error diagnostic for every directory whose listing
\* is denied and no Empty diagnostic for it.
C7_OneErrorPerDeniedDirectory ==
    (~cfg.fix /\ cfg.run # {} /\ cfg.dry_run = 0 /\ pc \in {"done", "raised"}) =>
        /\ raised = "none"
        /\ \A p \in Unlistable(fs) : Cardinality(ErrorsFor(p)) = 1 /\ ~HasDiag("Empty", p)

\* C8: when a fix run is over, every directory whose listing was denied during
\* its walks has an Error diagnostic in the stream of the run.
C8_FixKeepsTraversalErrors ==
    (cfg.fix /\ cfg.dry_run = 0 /\ pc = "done") =>
        \A p \in Unlistable(fs0) \cap Unlistable(fs) : ErrorsFor(p) # {}

\* C9: no diagnostic other than Error is emitted for a path that is excluded or
\* lies below an excluded path.
C9_NoDiagnosticUnderExclusion ==
    \A i \in 1..Len(diags) :
        diags[i].kind # "Error" => ~_is_excluded(diags[i].path, cfg.exclude)

\* C10: in a fix run the diagnostics and primitive calls of pass 1 all come
\* before those of pass 2, and those of pass 2 before those of pass 3.
C10_PassesDoNotInterleave ==
    cfg.fix => \A i, j \in 1..Len(stamps) : i < j => stamps[i] <= stamps[j]

\* a finished fix run in which each of the three passes acted
C10_Witness ==
    /\ cfg.fix /\ pc = "done"
    /\ {1, 2, 3} \subseteq Range(stamps)

\* C11: every CharactersFixed diagnostic keeps the suffix of the old path in
\* the new one, whatever the replacement string and whether or not the rename
\* was given an incremented name.
C11_FixKeepsSuffix ==
    \A i \in DiagKinds({"CharactersFixed"}) : suffix(diags[i].new) = suffix(diags[i].path)

\* stem with every invalid character replaced, the other characters kept in place
RECURSIVE Substituted(_, _, _)
Substituted(st, invalid, repl) ==
    IF st = <<>> THEN <<>>
    ELSE (IF Head(st) \in invalid THEN repl ELSE <<Head(st)>>)
         \o Substituted(Tail(st), invalid, repl)

\* C12: a rename of pass 1 that met no collision gives the entry the name
\* new_stem + suffix(old), new_stem being stem(old) with every invalid character
\* replaced by the replacement string and every other character kept in place.
C12_NewStemReplacesMatches ==
    \A i \in RenameCalls :
        (calls[i].pass = 1 /\ ~calls[i].collided) =>
            name(calls[i].dst) =
                Substituted(stem(calls[i].src), cfg.invalid, cfg.replacement) \o suffix(calls[i].src)

\* the candidate name after the first k rules
RECURSIVE Candidate(_, _, _)
Candidate(rules, nm, k) ==
    IF k = 0 THEN nm
    ELSE subn(rules[k], normalize(rules[k], Candidate(rules, nm, k - 1)))[1]

RuleMatched(rules, nm, k) ==
    subn(rules[k], normalize(rules[k], Candidate(rules, nm, k - 1)))[2] # 0

\* the rules that substituted something, each with the candidate it left, in list order
RECURSIVE MatchedUpTo(_, _, _)
MatchedUpTo(rules, nm, k) ==
    IF k = 0 THEN <<>>
    ELSE MatchedUpTo(rules, nm, k - 1)
         \o (IF RuleMatched(rules, nm, k) THEN <<<<rules[k], Candidate(rules, nm, k)>>>> ELSE <<>>)

\* C13: when pass 2 handles a name, a safe rename is attempted (a diagnostic or
\* a call of the primitive follows) exactly when some rule of the list, each
\* applied to the candidate left by the one before, substituted something; the
\* target asked for is the last candidate and a Rename diagnostic lists
\* exactly the rules that matched, each with its candidate, in list order.
C13_RulesApplyInOrder ==
    [][(pc = "pass2" /\ todo # <<>>) =>
          LET nm == Head(todo).name
              n == Len(cfg.rename)
              expected == MatchedUpTo(cfg.rename, nm, n)
          IN  /\ (diags' # diags \/ calls' # calls) <=> (expected # <<>>)
              /\ calls' # calls =>
                     calls'[Len(calls')].wanted = Join(Head(todo).root, Candidate(cfg.rename, nm, n))
              /\ (diags' # diags /\ diags'[Len(diags')].kind = "Rename") =>
                     diags'[Len(diags')].extra = expected]_vars

\* a Rename diagnostic that lists two rules, the second applied to the result of the first
C13_Witness ==
    \E i \in DiagKinds({"Rename"}) :
        /\ Len(diags[i].extra) = 2
        /\ diags[i].extra[1][2] # diags[i].extra[2][2]
        /\ name(diags[i].path) # diags[i].extra[1][2]

Names(f) == {p[Len(p)] : p \in DOMAIN f \ {<<>>}}

\* applying the rule list to any name of the tree gives back that name, and no
\* name holds an invalid character: the tree a previous fix run has left
AlreadyFixed(f) ==
    \A nm \in Names(f) :
        /\ Candidate(cfg.rename, nm, Len(cfg.rename)) = nm
        /\ \A k \in 1..Len(nm) : nm[k] \notin cfg.invalid

\* C14: a fix run on a tree whose names the rules already leave unchanged emits
\* no Rename diagnostic and makes no rename in pass 2.
C14_SecondFixRenamesNothing ==
    (cfg.fix /\ AlreadyFixed(fs0)) =>
        /\ DiagKinds({"Rename"}) = {}
        /\ \A i \in RenameCalls : calls[i].pass # 2

\* C15: with dry-run limited to N, pass 2 handles at most N entries, files and
\* directories counted together, so that it emits at most N diagnostics (Rename,
\* or the Error of a skipped collision, the only diagnostics of pass 2).
C15_DryRunLimitCountsEntries ==
    (cfg.fix /\ cfg.dry_run >= 1) =>
        Cardinality(DiagKinds({"Rename", "Error"})) <= cfg.dry_run

IsLengthKind(d) == d.kind \in {"Length", "NameLength"}

\* C16: for every entry pass 3 handles, each Length and NameLength diagnostic
\* the diagnostic walk produces for it is emitted as it is and adds one to the
\* unresolved count (which starts at 0 and changes nowhere else).
C16_UnresolvedCountsLengthDiagnostics ==
    [][(pc = "pass3" /\ todo # <<>> /\ raised' = "none") =>
          LET produced == SelectSeq(check_valid_file(fs, cfg, Head(todo).path, Head(todo).is_dir,
                                                     remaining_checks(cfg.run), empty_dirs).diags,
                                    IsLengthKind)
          IN  /\ counter' = counter + Len(produced)
              /\ SelectSeq(SubSeq(diags', Len(diags) + 1, Len(diags')), IsLengthKind) = produced]_vars

\* C17: in a fix run with the Empty check and dry-run off, a directory reported
\* Empty is gone from the tree, Empty diagnostics and rmdir calls go in pairs,
\* and when the run is over every readable, non-excluded directory of the
\* walked tree has a child: directories left childless by the removal of their
\* empty subdirectories were removed in the same pass.
C17_EmptyDirectoriesAreRemoved ==
    (cfg.fix /\ "EMPTY" \in cfg.run /\ cfg.dry_run = 0) =>
        /\ \A i \in DiagKinds({"Empty"}) : ~exists(fs, diags[i].path)
        /\ \A i \in DiagKinds({"Empty"}) : \E j \in RmdirCalls : calls[j].src = diags[i].path
        /\ \A j \in RmdirCalls : calls[j].err = "none" => HasDiag("Empty", calls[j].src.segments)
        /\ pc = "done" => \A p \in Checked(fs) : fs[p].mode => ChildNames(fs, p) # {}

\* the nested directories a/b/c were removed innermost first, /a/b and /a
\* having become childless during the pass
C17_Witness ==
    /\ cfg.fix /\ "EMPTY" \in cfg.run /\ cfg.dry_run = 0 /\ pc = "done"
    /\ \E i, j, k \in DiagKinds({"Empty"}) :
           /\ i < j /\ j < k
           /\ diags[i].path = Abs(<<<<"a">>, <<"b">>, <<"c">>>>)
           /\ diags[j].path = Abs(<<<<"a">>, <<"b">>>>)
           /\ diags[k].path = Abs(<<<<"a">>>>)
    /\ <<<<"a">>>> \notin DOMAIN fs /\ <<<<"a">>>> \in DOMAIN fs0

\* C18: a path built by from_str, `/`, parent or with_stem is given back,
\* segments and absolute flag, by from_str of its string.
C18_StrRoundTrips == from_str(Str(fp)) = fp

ProperPrefix(a, b) == IsPrefix(a, b) /\ a # b

\* C20: whenever a fix pass calls the rename or the rmdir primitive for a path,
\* that path designates an existing entry, and no directory above it was renamed
\* earlier in the same pass.
C20_OperatesOnExistingEntries ==
    [][calls' # calls =>
          LET c == calls'[Len(calls')]
          IN  /\ exists(fs, c.src)
              /\ \A i \in RenameCalls :
                     (calls[i].pass = c.pass /\ calls[i].err = "none") =>
                         ~ProperPrefix(calls[i].src.segments, c.src.segments)]_vars

\* C21: in a check-only run with the Characters check, InvalidName(path) is
\* yielded exactly when the pattern of the reserved names matches the full name
\* of the entry, stem and suffix together: every InvalidName diagnostic is for
\* such a name, and once a complete walk is over every entry with such a name
\* has one.
C21_InvalidNameOnFullName ==
    (~cfg.fix /\ "CHARACTERS" \in cfg.run) =>
        /\ \A i \in DiagKinds({"InvalidName"}) :
              invalid_names_match(cfg.invalid_names, name(diags[i].path))
        /\ (pc = "done" /\ cfg.dry_run = 0) =>
              \A q \in DOMAIN fs \ {<<>>} :
                  (IsPrefix(cfg.path.segments, q) /\ q[Len(q)] \in cfg.invalid_names)
                      => HasDiag("InvalidName", q)

\* the number of characters of the path string of an absolute path: a slash
\* ahead of every segment, one slash for the root
StrLength(p) ==
    IF p.segments = <<>> THEN 1
    ELSE Len(p.segments) + Len(Flatten(p.segments))

NewDiags(kind, p) ==
    {i \in Len(diags) + 1 .. Len(diags') : diags'[i].kind = kind /\ diags'[i].path = p}

\* C22: with the Length check, the diagnostic walk yields NameLength(path) exactly
\* when the name is longer than max_name_length and Length(path) exactly when
\* the length of the path string, plus 4 when the target is Windows and the host
\* is not, is above max_path_length; each at most once, one without the other
\* when only one condition holds, and nothing at the limit.
C22_LengthChecksAreIndependent ==
    [][(pc = "check" /\ todo # <<>> /\ "LENGTH" \in cfg.run /\ raised' = "none"
          /\ ~_is_excluded(Head(todo).path, cfg.exclude)) =>
          LET p == Head(todo).path
              adjusted == StrLength(p) + (IF cfg.windows /\ ~cfg.win THEN 4 ELSE 0)
          IN  /\ Cardinality(NewDiags("NameLength", p))
                    = (IF Len(Head(todo).name) > cfg.max_name_length THEN 1 ELSE 0)
              /\ Cardinality(NewDiags("Length", p))
                    = (IF adjusted > cfg.max_path_length THEN 1 ELSE 0)]_vars

\* on a host that is not Windows, /abcd/abcd (10 characters, 14 adjusted) got
\* Length alone, /abcde (name of 5, 10 adjusted) NameLength alone,
\* /abcd/abcde both and /abcd (name of 4, 9 adjusted) none
C22_Witness ==
    /\ pc = "done" /\ ~cfg.fix /\ "LENGTH" \in cfg.run /\ ~cfg.win /\ cfg.dry_run = 0
    /\ cfg.windows /\ cfg.max_name_length = 4 /\ cfg.max_path_length = 10
    /\ HasDiag("Length", <<<<"a", "b", "c", "d">>, <<"a", "b", "c", "d">>>>)
    /\ ~HasDiag("NameLength", <<<<"a", "b", "c", "d">>, <<"a", "b", "c", "d">>>>)
    /\ HasDiag("NameLength", <<<<"a", "b", "c", "d", "e">>>>)
    /\ ~HasDiag("Length", <<<<"a", "b", "c", "d", "e">>>>)
    /\ HasDiag("Length", <<<<"a", "b", "c", "d">>, <<"a", "b", "c", "d", "e">>>>)
    /\ HasDiag("NameLength", <<<<"a", "b", "c", "d">>, <<"a", "b", "c", "d", "e">>>>)
    /\ ~HasDiag("Length", <<<<"a", "b", "c", "d">>>>)
    /\ ~HasDiag("NameLength", <<<<"a", "b", "c", "d">>>>)

\* the name a rule leaves when normalization only decides what matches: the
\* characters outside the substituted spans are those of the name given
RECURSIVE SubstituteKeeping(_, _)
SubstituteKeeping(rule, st) ==
    IF st = <<>> THEN <<>>
    ELSE (IF normalize(rule, <<Head(st)>>) = <<rule.match>> THEN rule.replacement ELSE <<Head(st)>>)
         \o SubstituteKeeping(rule, Tail(st))

RECURSIVE CandidateKeeping(_, _, _)
CandidateKeeping(rules, nm, k) ==
    IF k = 0 THEN nm
    ELSE SubstituteKeeping(rules[k], CandidateKeeping(rules, nm, k - 1))

\* C23: in pass 2 normalization only decides which spans of a name match: the
\* target asked for keeps every character outside the substituted spans as it
\* is in the original name, accents included, and an accent-insensitive rule
\* that matches nothing hands the candidate on unchanged.
C23_NormalizationOnlyDecidesMatches ==
    [][(pc = "pass2" /\ todo # <<>> /\ calls' # calls) =>
          calls'[Len(calls')].wanted
              = Join(Head(todo).root,
                     CandidateKeeping(cfg.rename, Head(todo).name, Len(cfg.rename)))]_vars

\* C24: pass 3 walks with exactly the requested checks minus Characters:
\* Characters is not in its check set when it was not requested, and no pass-3
\* walk takes place when nothing but Characters, or nothing at all, was requested.
C24_PassThreeChecksAreRequestedMinusCharacters ==
    pc = "pass3" =>
        /\ remaining_checks(cfg.run) = cfg.run \ {"CHARACTERS"}
        /\ cfg.run \ {"CHARACTERS"} # {}

\* C25: a path value and any path built from a string compare equal exactly
\* when they have the same segments and the same absolute flag, and two values
\* that compare equal have the same hash.
C25_EqualityAndHashAgree ==
    \A s \in Strings :
        LET q == from_str(s)
        IN  /\ PathEq(fp, q) <=> (fp.segments = q.segments /\ fp.absolute = q.absolute)
            /\ PathEq(fp, q) => PathHash(fp) = PathHash(q)

\* the proper ancestors of p, nearest first, down to the zero-segment path
ProperAncestors(p) ==
    [k \in 1..Len(p.segments) |->
        FastPath(SubSeq(p.segments, 1, Len(p.segments) - k), p.absolute)]

RECURSIVE ParentTimes(_, _)
ParentTimes(p, n) == IF n = 0 THEN p ELSE ParentTimes(parent(p), n - 1)

\* C26: parents yields exactly the proper ancestors of the path, from the
\* nearest to the zero-segment path, each once and never the path itself, also
\* for the root; parent taken as many times as the path has segments gives the
\* zero-segment path, whose parent is itself.
C26_ParentsAreProperAncestors ==
    /\ parents(fp) = ProperAncestors(fp)
    /\ \A i \in 1..Len(parents(fp)) : parents(fp)[i] # fp
    /\ ParentTimes(fp, Len(fp.segments)) = FastPath(<<>>, fp.absolute)
    /\ parent(FastPath(<<>>, fp.absolute)) = FastPath(<<>>, fp.absolute)

\* C27: a path value built by from_str, join, parent and with_stem, the stem
\* being one pass 1 can build (empty when the replacement string is empty and
\* every character of the stem is replaced), has no empty segment and no "."
\* segment.
C27_SegmentsAreNeverEmptyOrDot ==
    \A i \in 1..Len(fp.segments) : fp.segments[i] \notin {<<>>, <<".">>}

\* the entry is an excluded path or lies below one
UnderExclusion(p) == \E e \in cfg.exclude : IsPrefix(e.segments, p.segments)

\* C28: in a fix run no pass hands an entry that is excluded, or that lies
\* below an excluded path, to the rename or the rmdir primitive, and every
\* such entry of the initial tree is still there, unchanged.
C28_ExcludedEntriesAreUntouched ==
    cfg.fix =>
        /\ \A j \in 1..Len(calls) : ~UnderExclusion(calls[j].src)
        /\ \A q \in DOMAIN fs0 :
              UnderExclusion(FastPath(q, TRUE)) => (q \in DOMAIN fs /\ fs[q] = fs0[q])

\* the entry the checked path names once the renames of the passes before
\* pass k are done
RECURSIVE Followed(_, _, _)
Followed(p, j, k) ==
    IF j > Len(calls) THEN p
    ELSE IF calls[j].op = "rename" /\ calls[j].pass < k /\ calls[j].err = "none" /\ calls[j].src = p
    THEN Followed(calls[j].dst, j + 1, k)
    ELSE Followed(p, j + 1, k)

VisitedIn(k, q) == \E i \in 1..Len(visits) : visits[i].pass = k /\ visits[i].path.segments = q

\* C29: when pass 2, or pass 3, of a fix run with dry-run off comes to its end,
\* every entry that was in the tree under the checked entry when the pass
\* began, and that can be listed, has been handed to the pass under the name it
\* had then, also when an earlier pass renamed the checked entry itself.
C29_PassesWalkTheCurrentTree ==
    [][(pc \in {"pass2", "pass3"} /\ pc' \notin {pc, "raised"} /\ cfg.dry_run = 0) =>
          \A q \in DOMAIN fs_pass \ {<<>>} :
              (IsPrefix(Followed(cfg.path, 1, PassNo(pc)).segments, q) /\ Reachable(fs_pass, q))
                  => VisitedIn(PassNo(pc), q)]_vars

\* the kinds of diagnostics, other than Empty, that the diagnostic walk of the
\* tree yields for the entry q when every entry is reached
KindsFor(q) ==
    LET c == check_valid_file(fs, cfg, FastPath(q, TRUE), fs[q].dir, cfg.run \ {"EMPTY"}, {})
    IN  {c.diags[i].kind : i \in 1..Len(c.diags)}

\* C30: a check-only run with dry-run on (True, no integer limit) yields what
\* the run with dry-run off yields on the same tree: once it is over, every
\* entry under the checked path that can be listed has the Characters,
\* InvalidName, NameLength and Length diagnostics the complete walk gives it.
C30_DryRunOnDoesNotShortenTheCheck ==
    (~cfg.fix /\ pc = "done" /\ cfg.dry_run \in {0, 1}) =>
        \A q \in DOMAIN fs \ {<<>>} :
            (IsPrefix(cfg.path.segments, q) /\ Reachable(fs, q))
                => \A kind \in KindsFor(q) : HasDiag(kind, q)
====
